---- MODULE Spec2Model ----
(***************************************************************************)
(* PaperWeather-Pi: the Renderer (src/src/renderer.py), its icon cache,    *)
(* the I18n table (src/src/i18n.py) and the update cycle of main.py.       *)
(*                                                                         *)
(* A bit plane is kept as the sequence of drawing operations applied to it *)
(* (text, line, paste), each with its position; the value of a pixel is    *)
(* derived from that sequence (PlaneAt).  Numbers with one decimal         *)
(* (temperatures, wind speed, UV index) are kept in tenths.                *)
(***************************************************************************)
EXTENDS Integers, Sequences, FiniteSets, TLC

VARIABLES
    translations,   \* I18n.translations after I18n.__init__
    cache,          \* cache/icons/{code}.png: file content or NoFile
    weather_data,   \* the argument of the render call in progress
    image_black,    \* black plane: drawing operations applied so far
    image_red,      \* red plane: drawing operations applied so far
    rpc,            \* position inside Renderer.render
    col,            \* index i of the forecast loop
    now_from,       \* where render took `now` from: "none", "snapshot", "host"
    gets,           \* icon GET requests sent since the cycle began, per code
    lastCall,       \* the last get_weather_icon call and what it did
    firstOk,        \* the bitmap of the first successful call, per (code, size)
    tr_call,        \* the last I18n.translate call and its outcome
    pc,             \* position inside main
    data,           \* `data` of update(): what weather.fetch returned (None
                    \* outside update)
    fetches,        \* weather.fetch calls since the cycle began
    loop,           \* args.loop
    config,         \* what load_config returned
    log,            \* the highest level logged in this phase of main
    base_url,       \* WeatherFetcher.base_url
    fetch_call,     \* the last fetch call on a WeatherFetcher driven on its
                    \* own, and what it did
    panel,          \* the display: "off", "ready" (after init), "displayed"
                    \* (after display) or "asleep"
    shown,          \* the planes display.display got in the cycle under way
    sim,            \* an EInkDisplay in simulation mode and its files
    conv,           \* an EInkConverter, its input file and its result
    moon            \* a generate_moon_icon call, scanline by scanline

vars == <<translations, cache, weather_data, image_black, image_red, rpc, col,
          now_from, gets, lastCall, firstOk, tr_call, pc, data, fetches, loop,
          config, log, base_url, fetch_call, panel, shown, sim, conv, moon>>

(***************************************************************************)
(* Python values                                                           *)
(***************************************************************************)
None == [none |-> TRUE]
EmptyDict == <<>>

\* dict.get(key, default)
Get(d, k, default) == IF k \in DOMAIN d THEN d[k] ELSE default

\* Variant: `if weather_data is None` in place of `if not weather_data`
Falsy_OnlyNone(d) == d = [none |-> TRUE]

\* Python truthiness of a snapshot: None and {} are falsy
Falsy(d) == d = None \/ DOMAIN d = {}

Min(a, b) == IF a < b THEN a ELSE b
Abs(n) == IF n < 0 THEN -n ELSE n

(***************************************************************************)
(* Number and time formatting                                              *)
(***************************************************************************)
Digits == <<"0", "1", "2", "3", "4", "5", "6", "7", "8", "9">>

RECURSIVE NatToStr(_)
NatToStr(n) ==
    IF n < 10 THEN Digits[n + 1]
    ELSE NatToStr(n \div 10) \o Digits[(n % 10) + 1]

\* str(int)
IntToStr(n) == IF n < 0 THEN "-" \o NatToStr(-n) ELSE NatToStr(n)

\* n / unit rounded to an integer, ties to even (Python's format rounding)
RoundHalfEven(n, unit) ==
    LET q == n \div unit
        r == n % unit
    IN  IF 2 * r < unit THEN q
        ELSE IF 2 * r > unit THEN q + 1
        ELSE IF q % 2 = 0 THEN q ELSE q + 1

\* f"{v:.0f}" of a value given in tenths; the sign of a negative value is kept
Fmt0f(t10) ==
    (IF t10 < 0 THEN "-" ELSE "") \o NatToStr(RoundHalfEven(Abs(t10), 10))

\* f"{v:.1f}" of a value given in tenths
Fmt1f(t10) ==
    (IF t10 < 0 THEN "-" ELSE "")
        \o NatToStr(Abs(t10) \div 10) \o "." \o Digits[(Abs(t10) % 10) + 1]

\* f"{moon_age:.1f}" of an age given in 1/10000 day
FmtAge(a) == Fmt1f(RoundHalfEven(a, 1000))

Pad2(n) == IF n < 10 THEN "0" \o NatToStr(n) ELSE NatToStr(n)

\* datetime.utcfromtimestamp(t).strftime("%H:%M")
HHMM(t) == Pad2((t % 86400) \div 3600) \o ":" \o Pad2((t % 3600) \div 60)

\* datetime.utcfromtimestamp(t).strftime("%a"); 1970-01-01 was a Thursday
DayNames == <<"Thu", "Fri", "Sat", "Sun", "Mon", "Tue", "Wed">>
DayName(t) == DayNames[((t \div 86400) % 7) + 1]

\* datetime.utcfromtimestamp(t).strftime("%Y/%m/%d"): the civil date of the
\* day number t \div 86400 in the proleptic Gregorian calendar
YMD(t) ==
    LET z   == (t \div 86400) + 719468
        era == z \div 146097
        doe == z - era * 146097
        yoe == (doe - (doe \div 1460) + (doe \div 36524) - (doe \div 146096)) \div 365
        doy == doe - (365 * yoe + (yoe \div 4) - (yoe \div 100))
        mp  == (5 * doy + 2) \div 153
        d   == doy - ((153 * mp + 2) \div 5) + 1
        m   == IF mp < 10 THEN mp + 3 ELSE mp - 9
        y   == yoe + era * 400 + (IF m <= 2 THEN 1 ELSE 0)
    IN  NatToStr(y) \o "/" \o Pad2(m) \o "/" \o Pad2(d)

(***************************************************************************)
(* I18n (src/src/i18n.py)                                                  *)
(***************************************************************************)
\* What json.load gives for locale/{locale}/messages.json: a JSON value with
\* its Python type.  A table is a function from texts to texts (the
\* Japanese entries are written in Latin letters here).
JaTable == [t \in {"Wed", "Thu", "Sunrise", "Humidity"} |->
               CASE t = "Wed" -> "Sui"
                 [] t = "Thu" -> "Moku"
                 [] t = "Sunrise" -> "Hinode"
                 [] t = "Humidity" -> "Shitsudo"]

Dict(m) == [type |-> "dict", map |-> m]
JsonList == [type |-> "list"]
JsonNull == [type |-> "NoneType"]

\* The states of the translation file: absent, present but unreadable or not
\* JSON, or holding a JSON value
LocaleFiles ==
    { [exists |-> FALSE, readable |-> FALSE, json |-> JsonNull],
      [exists |-> TRUE,  readable |-> FALSE, json |-> JsonNull],
      [exists |-> TRUE,  readable |-> TRUE,  json |-> Dict(JaTable)],
      [exists |-> TRUE,  readable |-> TRUE,  json |-> Dict(EmptyDict)],
      [exists |-> TRUE,  readable |-> TRUE,  json |-> JsonList],
      [exists |-> TRUE,  readable |-> TRUE,  json |-> JsonNull] }

\* I18n.__init__ with _load_translations: translations starts as {} and is
\* replaced only when the file exists and json.load succeeds
load_translations(file) ==
    IF ~file.exists THEN Dict(EmptyDict)
    ELSE IF ~file.readable THEN Dict(EmptyDict)
    ELSE file.json

\* I18n.translate: self.translations.get(text, text); a value that is no
\* dict has no .get and the call raises AttributeError
translate(tr, text) ==
    IF tr.type = "dict"
    THEN [raised |-> FALSE, ret |-> Get(tr.map, text, text)]
    ELSE [raised |-> TRUE, ret |-> text]

\* self.i18n(text) where the caller goes on with the value
Tr(tr, text) == translate(tr, text).ret

(***************************************************************************)
(* Drawing operations on a plane                                           *)
(***************************************************************************)
\* Renderer.fonts: horizontal advance of a glyph and line height, per style
FontAdvance == [small |-> 8, medium |-> 12, large |-> 24, huge |-> 32]
FontHeight == [small |-> 16, medium |-> 24, large |-> 48, huge |-> 64]

\* config['display']['width'], config['display']['height']
Width == 800
Height == 480

Text(x, y, s, font) == [op |-> "text", x |-> x, y |-> y, s |-> s, font |-> font]
HLine(x0, y0, x1, w) == [op |-> "line", x |-> x0, y |-> y0, x1 |-> x1, w |-> w]
Paste(bitmap, x, y) == [op |-> "paste", x |-> x, y |-> y, bitmap |-> bitmap]

\* The pixels an operation sets to 0, as a box [x0, x1) x [y0, y1) clipped to
\* the canvas.  A glyph is taken as its cell and a pasted bitmap as its
\* square: the footprint of the ink, not its shape.
Box(o) ==
    LET raw ==
          CASE o.op = "text" ->
                 [x0 |-> o.x, y0 |-> o.y,
                  x1 |-> o.x + Len(o.s) * FontAdvance[o.font],
                  y1 |-> o.y + FontHeight[o.font]]
            [] o.op = "line" ->
                 [x0 |-> o.x, y0 |-> o.y - (o.w \div 2),
                  x1 |-> o.x1 + 1, y1 |-> o.y - (o.w \div 2) + o.w]
            [] o.op = "paste" ->
                 [x0 |-> o.x, y0 |-> o.y,
                  x1 |-> o.x + o.bitmap.size, y1 |-> o.y + o.bitmap.size]
    IN  [x0 |-> IF raw.x0 < 0 THEN 0 ELSE raw.x0,
         y0 |-> IF raw.y0 < 0 THEN 0 ELSE raw.y0,
         x1 |-> Min(raw.x1, Width),
         y1 |-> Min(raw.y1, Height)]

Overlap(a, b) ==
    /\ a.x0 < a.x1 /\ a.y0 < a.y1 /\ b.x0 < b.x1 /\ b.y0 < b.y1
    /\ a.x0 < b.x1 /\ b.x0 < a.x1
    /\ a.y0 < b.y1 /\ b.y0 < a.y1

\* The value of pixel (px, py) of a plane created with 1 everywhere
PlaneAt(plane, px, py) ==
    IF \E k \in DOMAIN plane :
          LET b == Box(plane[k])
          IN  b.x0 <= px /\ px < b.x1 /\ b.y0 <= py /\ py < b.y1
    THEN 0 ELSE 1

\* Some pixel is 0 on both planes
BothPlanesZero(black, red) ==
    \E i \in DOMAIN red : \E j \in DOMAIN black :
        Overlap(Box(red[i]), Box(black[j]))

(***************************************************************************)
(* Icon cache (Renderer.get_weather_icon)                                  *)
(***************************************************************************)
NoFile == "NoFile"
Codes == {"01d", "10d", ""}
\* Bodies the icon server can send with status 200; "html" is no image
Contents == {"pngA", "pngB", "html"}
Decodable == {"pngA", "pngB"}

\* What requests.get does when called: status 0 stands for an exception
\* (timeout, connection error), otherwise the status code and the body
Failures == {[status |-> 0, content |-> ""], [status |-> 404, content |-> ""]}
Responses == Failures \cup {[status |-> 200, content |-> c] : c \in Contents}
\* The server has no icon of an empty name: .../img/wn/@4x.png is not found
ResponsesFor(code) == IF code = "" THEN Failures ELSE Responses

\* Lines 315-339: open, resize, flatten on white, threshold to 1 bit; any
\* exception (a file that is no image) gives None
ProcessIcon(content, size) ==
    IF content \in Decodable THEN [src |-> content, size |-> size] ELSE None

\* Variant: the download is made whether or not the file exists
get_weather_icon_NoExistsCheck(files, code, size, resp) ==
    IF resp.status = 200
    THEN [ret |-> ProcessIcon(resp.content, size),
          files |-> [files EXCEPT ![code] = resp.content],
          get |-> TRUE, raised |-> FALSE]
    ELSE [ret |-> None, files |-> files, get |-> TRUE, raised |-> FALSE]

\* Variant: a cached file that cannot be processed is fetched again
get_weather_icon_Refetch(files, code, size, resp) ==
    IF files[code] = NoFile \/ files[code] \notin Decodable
    THEN IF resp.status = 200
         THEN [ret |-> ProcessIcon(resp.content, size),
               files |-> [files EXCEPT ![code] = resp.content],
               get |-> TRUE, raised |-> FALSE]
         ELSE [ret |-> None, files |-> files, get |-> TRUE, raised |-> FALSE]
    ELSE [ret |-> ProcessIcon(files[code], size),
          files |-> files, get |-> FALSE, raised |-> FALSE]

\* Variant: the body of the reply is written whatever the status is
get_weather_icon_NoStatusCheck(files, code, size, resp) ==
    IF files[code] = NoFile
    THEN IF resp.status # 0
         THEN [ret |-> ProcessIcon(resp.content, size),
               files |-> [files EXCEPT ![code] = resp.content],
               get |-> TRUE, raised |-> FALSE]
         ELSE [ret |-> None, files |-> files, get |-> TRUE, raised |-> FALSE]
    ELSE [ret |-> ProcessIcon(files[code], size),
          files |-> files, get |-> FALSE, raised |-> FALSE]

\* The whole of get_weather_icon for the reply `resp` the server gives if it
\* is asked: the bitmap returned, the cache afterwards, whether a GET was sent
get_weather_icon(files, code, size, resp) ==
    IF files[code] = NoFile
    THEN IF resp.status = 200
         THEN [ret |-> ProcessIcon(resp.content, size),
               files |-> [files EXCEPT ![code] = resp.content],
               get |-> TRUE, raised |-> FALSE]
         ELSE [ret |-> None, files |-> files, get |-> TRUE, raised |-> FALSE]
    ELSE [ret |-> ProcessIcon(files[code], size),
          files |-> files, get |-> FALSE, raised |-> FALSE]

(***************************************************************************)
(* Snapshots: the JSON of the weather API as render receives it            *)
(***************************************************************************)
Day(dt, max, min, icon, phase) ==
    [dt |-> dt, temp |-> [max |-> max, min |-> min],
     weather |-> <<[icon |-> icon]>>, moon_phase |-> phase]

\* Fully populated, UTC+9, the current icon also needed by both columns
SnapFull ==
    [current |-> [dt |-> 1735693500, temp |-> 213, humidity |-> 40,
                  pressure |-> 1013, wind_speed |-> 36, uvi |-> 12,
                  weather |-> <<[icon |-> "01d", description |-> "clear sky"]>>,
                  sunrise |-> 1735681860, sunset |-> 1735717080],
     daily |-> <<Day(1735700400, 95, -5, "01d", 25),
                 Day(1735786800, 125, 25, "01d", 28)>>,
     timezone_offset |-> 32400]

\* Six daily entries (one more than the strip shows), west of Greenwich
SnapWeek ==
    [current |-> [dt |-> 1735693500, temp |-> -41, humidity |-> 85,
                  pressure |-> 998, wind_speed |-> 120, uvi |-> 0,
                  weather |-> <<[icon |-> "10d", description |-> "light rain"]>>,
                  sunrise |-> 1735681860, sunset |-> 1735717080],
     daily |-> <<Day(1735700400, 15, -35, "10d", 50),
                 Day(1735786800, 20, -20, "01d", 53),
                 Day(1735873200, 5, -100, "10d", 57),
                 Day(1735959600, 0, -15, "10d", 60),
                 Day(1736046000, 30, 10, "01d", 64),
                 Day(1736132400, 40, 20, "01d", 67)>>,
     timezone_offset |-> -18000]

\* Partial: no current.dt, no timezone_offset, no condition entries
SnapPartial ==
    [current |-> [temp |-> 180, sunrise |-> 1735681860],
     daily |-> <<[moon_phase |-> 75], [dt |-> 1735786800]>>]

\* current.dt = 0 and sunrise = 0, no `daily` key
SnapEpoch ==
    [current |-> [dt |-> 0, temp |-> 0, sunrise |-> 0, sunset |-> 1735717080,
                  weather |-> <<[icon |-> "01d", description |-> "clear sky"]>>],
     timezone_offset |-> 32400]

\* `daily` present and empty
SnapNoDays ==
    [current |-> [dt |-> 1735693500, temp |-> 213], daily |-> <<>>,
     timezone_offset |-> 32400]

\* A maximum temperature of many digits
SnapWide ==
    [current |-> [dt |-> 1735693500, temp |-> 213,
                  weather |-> <<[icon |-> "01d", description |-> "clear sky"]>>],
     daily |-> <<Day(1735700400, 1000000, 50, "01d", 0)>>,
     timezone_offset |-> 0]

\* Sunrise timestamps and timezone offsets (seconds), with no `daily` key
SunTimes == {0, 86399, 1735681860, 1735689599}
Offsets == {-18000, 0, 20700, 32400}
SunSnaps ==
    {[current |-> [dt |-> 1735693500, sunrise |-> t, sunset |-> t + 36000],
      timezone_offset |-> z] : t \in SunTimes, z \in Offsets}

Populated == {SnapFull, SnapWeek, SnapPartial, SnapEpoch, SnapNoDays, SnapWide}
Snapshots == {None, EmptyDict} \cup Populated \cup SunSnaps

\* datetime.utcnow() on the host: what the host clock may show
HostTimes == {1700000000, 1735693500}

(***************************************************************************)
(* Renderer (src/src/renderer.py)                                          *)
(***************************************************************************)
\* generate_moon_icon(age, size): a bitmap determined by age and size
generate_moon_icon(age, size) == [moon |-> age, size |-> size]

\* Variant: the timezone offset is left out
fmt_ts_NoOffset(ts, timezone_offset) ==
    IF ts = 0 THEN "--:--" ELSE HHMM(ts)

\* fmt_ts of draw_sun_moon_rich
fmt_ts(ts, timezone_offset) ==
    IF ts = 0 THEN "--:--" ELSE HHMM(ts + timezone_offset)

\* draw_sun_moon_rich: what it draws on `image`, in order
draw_sun_moon_rich(tr, x, y, sunrise, sunset, moon_age, timezone_offset) ==
    << Paste(generate_moon_icon(moon_age, 100), x + 200, y + 10),
       Text(x, y + 10, Tr(tr, "Sunrise"), "small"),
       Text(x, y + 30, fmt_ts(sunrise, timezone_offset), "medium"),
       Text(x + 80, y + 10, Tr(tr, "Sunset"), "small"),
       Text(x + 80, y + 30, fmt_ts(sunset, timezone_offset), "medium"),
       Text(x + 200, y + 110, Tr(tr, "Age") \o ": " \o FmtAge(moon_age), "small") >>

Current(d) == Get(d, "current", EmptyDict)
TzOffset(d) == Get(d, "timezone_offset", 0)
\* Variant: the loop runs over every daily entry
Daily5_All(d) == Get(d, "daily", <<>>)

\* weather_data.get('daily', [])[:5]
Daily5(d) ==
    LET daily == Get(d, "daily", <<>>)
    IN  SubSeq(daily, 1, Min(5, Len(daily)))
\* `if current_dt:` holds for a timestamp that is present and not 0
HasDt(d) == "dt" \in DOMAIN Current(d) /\ Current(d).dt # 0

\* The `now` of lines 162-166 for the host clock reading `host`
Now(d, host) == IF HasDt(d) THEN Current(d).dt + TzOffset(d) ELSE host

\* Lines 168-174: the header
Header(tr, now) ==
    << Text(20, 15, YMD(now) \o " (" \o Tr(tr, DayName(now)) \o ")", "medium"),
       Text(20, 50, HHMM(now), "large") >>

\* Lines 177-180 and 183: the code of the main icon
MainIconCode(d) ==
    Get(Get(Current(d), "weather", <<EmptyDict>>)[1], "icon", "01d")

\* Lines 184-233: everything between the main icon call and the forecast
MainBlock(tr, d, icon_img) ==
    LET current == Current(d)
        weather_main == Get(current, "weather", <<EmptyDict>>)[1]
        daily_today == Get(d, "daily", <<EmptyDict>>)[1]
        moon_age == Get(daily_today, "moon_phase", 0) * 2953
        wind == IF "wind_speed" \in DOMAIN current
                THEN Fmt1f(current.wind_speed) ELSE "0"
        uvi == IF "uvi" \in DOMAIN current THEN Fmt1f(current.uvi) ELSE "0"
    IN  (IF icon_img = None THEN <<>> ELSE <<Paste(icon_img, 20, 100)>>)
        \o << Text(180, 110, Fmt1f(Get(current, "temp", 0)) \o "°C", "huge"),
              Text(180, 210, Get(weather_main, "description", "N/A"), "medium") >>
        \o draw_sun_moon_rich(tr, 450, 20, Get(current, "sunrise", 0),
                              Get(current, "sunset", 0), moon_age, TzOffset(d))
        \o << Text(450, 150, Tr(tr, "Humidity") \o ": "
                     \o IntToStr(Get(current, "humidity", 0)) \o "%", "medium"),
              Text(450, 185, Tr(tr, "Pressure") \o ": "
                     \o IntToStr(Get(current, "pressure", 0)) \o "hPa", "medium"),
              Text(450, 220, Tr(tr, "Wind") \o ": " \o wind \o "m/s", "medium"),
              Text(450, 255, Tr(tr, "UV Index") \o ": " \o uvi, "medium"),
              HLine(20, 320, 780, 3) >>

\* Line 238 and 241: where column i starts
ColX(i) == 20 + i * ((Width - 40) \div 5)

\* Line 247: the icon code of a daily entry
DayIconCode(day) == Get(Get(day, "weather", <<EmptyDict>>)[1], "icon", "")

\* Lines 242-265 on the black plane for column i
ColumnBlack(tr, d, i, day, d_icon_img) ==
    << Text(ColX(i) + 10, 340, Tr(tr, DayName(Get(day, "dt", 0) + TzOffset(d))),
            "medium") >>
    \o (IF d_icon_img = None THEN <<>>
        ELSE <<Paste(d_icon_img, ColX(i) + 10, 340 + 30)>>)
    \o << Text(ColX(i) + 80, 340 + 100,
               Fmt0f(Get(Get(day, "temp", EmptyDict), "min", 0)) \o "°", "medium") >>

\* Lines 258-261: column i on the red plane
ColumnRed(d, i, day) ==
    << Text(ColX(i) + 10, 340 + 100,
            Fmt0f(Get(Get(day, "temp", EmptyDict), "max", 0)) \o "°", "medium") >>

(***************************************************************************)
(* State machine of the Renderer                                           *)
(***************************************************************************)
Sizes == {150, 60}
NoCall == [code |-> "", size |-> 0, ret |-> None, get |-> FALSE,
           existed |-> FALSE, status |-> -1, prior |-> None, raised |-> FALSE,
           called |-> FALSE]
NoTranslate == [text |-> "", ret |-> "", raised |-> FALSE, called |-> FALSE]

rvars == <<cache, weather_data, image_black, image_red, rpc, col, now_from,
           gets, lastCall, firstOk>>
fvars == <<base_url, fetch_call>>
svars == <<sim, conv, moon>>
mvars == <<pc, data, fetches, loop, config, log, panel, shown, fvars, svars>>

\* One call get_weather_icon(code, size) answered by `resp`: the cache and the
\* bookkeeping of the call.  The value returned is IconRet(code, size, resp).
IconRet(code, size, resp) == get_weather_icon(cache, code, size, resp).ret

IconCall(code, size, resp) ==
    LET r == get_weather_icon(cache, code, size, resp)
    IN  /\ cache' = r.files
        /\ gets' = IF r.get THEN [gets EXCEPT ![code] = @ + 1] ELSE gets
        /\ lastCall' = [code |-> code, size |-> size, ret |-> r.ret,
                        get |-> r.get, existed |-> cache[code] # NoFile,
                        status |-> IF r.get THEN resp.status ELSE -1,
                        prior |-> firstOk[<<code, size>>],
                        raised |-> r.raised, called |-> TRUE]
        /\ firstOk' = IF r.ret # None /\ firstOk[<<code, size>>] = None
                      THEN [firstOk EXCEPT ![<<code, size>>] = r.ret]
                      ELSE firstOk

\* Renderer.render, lines 138-174: the planes are created; an absent snapshot
\* gets the placeholder; otherwise the header is drawn.  [][0] on an empty
\* `daily` raises IndexError, and self.i18n raises when the table is no dict.
RenderBegin(d) ==
    /\ rpc = "idle"
    /\ weather_data' = d
    /\ col' = 0
    /\ gets' = [c \in Codes |-> 0]
    /\ lastCall' = NoCall
    /\ image_red' = <<>>
    /\ IF Falsy(d)
       THEN /\ image_black' = <<Text(10, 10, "No Weather Data Available", "medium")>>
            /\ now_from' = "none"
            /\ rpc' = "returned"
       ELSE IF Get(d, "daily", <<EmptyDict>>) = <<>>
       THEN /\ image_black' = <<>>
            /\ now_from' = "none"
            /\ rpc' = "raised"
       ELSE \E host \in HostTimes :
            /\ now_from' = IF HasDt(d) THEN "snapshot" ELSE "host"
            /\ IF translate(translations, DayName(Now(d, host))).raised
               THEN image_black' = <<>> /\ rpc' = "raised"
               ELSE /\ image_black' = Header(translations, Now(d, host))
                    /\ rpc' = "main_icon"
    /\ UNCHANGED <<cache, firstOk, translations, tr_call>>

\* Lines 177-233: the main icon is fetched and pasted, then temperature,
\* description, sun and moon panel, statistics and separator are drawn
RenderMain(resp) ==
    /\ rpc = "main_icon"
    /\ resp \in ResponsesFor(MainIconCode(weather_data))
    /\ IconCall(MainIconCode(weather_data), 150, resp)
    /\ IF get_weather_icon(cache, MainIconCode(weather_data), 150, resp).raised
       THEN image_black' = image_black /\ rpc' = "raised"
       ELSE /\ image_black' = image_black
                  \o MainBlock(translations, weather_data,
                               IconRet(MainIconCode(weather_data), 150, resp))
            /\ rpc' = "forecast"
    /\ UNCHANGED <<weather_data, image_red, col, now_from, translations, tr_call>>
    /\ UNCHANGED mvars

\* Lines 240-265: one pass of the forecast loop, for column i = col
RenderColumn(resp) ==
    /\ rpc = "forecast"
    /\ col < Len(Daily5(weather_data))
    /\ LET day == Daily5(weather_data)[col + 1]
       IN  /\ resp \in ResponsesFor(DayIconCode(day))
           /\ IconCall(DayIconCode(day), 60, resp)
           /\ IF get_weather_icon(cache, DayIconCode(day), 60, resp).raised
              THEN /\ rpc' = "raised"
                   /\ image_black' = image_black
                         \o << Text(ColX(col) + 10, 340,
                                    Tr(translations,
                                       DayName(Get(day, "dt", 0) + TzOffset(weather_data))),
                                    "medium") >>
                   /\ image_red' = image_red
              ELSE /\ rpc' = rpc
                   /\ image_black' = image_black
                         \o ColumnBlack(translations, weather_data, col, day,
                                        IconRet(DayIconCode(day), 60, resp))
                   /\ image_red' = image_red \o ColumnRed(weather_data, col, day)
    /\ col' = col + 1
    /\ UNCHANGED <<weather_data, now_from, translations, tr_call>>
    /\ UNCHANGED mvars

\* Line 267: the loop is over and the two planes are returned
RenderReturn ==
    /\ rpc = "forecast"
    /\ col = Len(Daily5(weather_data))
    /\ rpc' = "returned"
    /\ UNCHANGED <<cache, weather_data, image_black, image_red, col, now_from,
                   gets, lastCall, firstOk, translations, tr_call>>
    /\ UNCHANGED mvars

\* The caller has the result of the call (the planes, the bitmap, the text
\* or the exception) and the object waits for the next call
Cleared ==
    /\ rpc' = "idle"
    /\ weather_data' = None
    /\ image_black' = <<>>
    /\ image_red' = <<>>
    /\ col' = 0
    /\ now_from' = "none"
    /\ gets' = [c \in Codes |-> 0]
    /\ lastCall' = NoCall
    /\ tr_call' = NoTranslate
    /\ UNCHANGED <<cache, firstOk, translations>>

CallDone ==
    /\ rpc \in {"returned", "raised", "icon_returned", "translated"}
    /\ Cleared
    /\ UNCHANGED mvars

\* A call of get_weather_icon from outside render
GetWeatherIcon(code, size, resp) ==
    /\ rpc = "idle"
    /\ resp \in ResponsesFor(code)
    /\ IconCall(code, size, resp)
    /\ rpc' = "icon_returned"
    /\ UNCHANGED <<weather_data, image_black, image_red, col, now_from,
                   translations, tr_call>>
    /\ UNCHANGED mvars

\* A call of I18n.translate from outside render
Translate(text) ==
    /\ rpc = "idle"
    /\ tr_call' = [text |-> text, ret |-> translate(translations, text).ret,
                   raised |-> translate(translations, text).raised,
                   called |-> TRUE]
    /\ rpc' = "translated"
    /\ UNCHANGED <<translations, cache, weather_data, image_black, image_red,
                   col, now_from, gets, lastCall, firstOk>>
    /\ UNCHANGED mvars

Texts == {"Sunrise", "Sunset", "Wed", "Mon", "Unknown Text"}

\* Renderer.__init__: the I18n table is loaded and the cache directory exists
\* with whatever earlier runs left in it
InitRenderer ==
    /\ \E file \in LocaleFiles : translations = load_translations(file)
    /\ cache \in [Codes -> Contents \cup {NoFile}]
    /\ cache[""] = NoFile
    /\ weather_data = None
    /\ image_black = <<>>
    /\ image_red = <<>>
    /\ rpc = "idle"
    /\ col = 0
    /\ now_from = "none"
    /\ gets = [c \in Codes |-> 0]
    /\ lastCall = NoCall
    /\ firstOk = [k \in Codes \X Sizes |-> None]
    /\ tr_call = NoTranslate

RenderCall == (\E d \in Snapshots : RenderBegin(d)) /\ UNCHANGED mvars
RenderMainStep == \E resp \in Responses : RenderMain(resp)
RenderColumnStep == \E resp \in Responses : RenderColumn(resp)
IconApiCall ==
    \E code \in Codes, size \in Sizes, resp \in Responses :
        GetWeatherIcon(code, size, resp)
TranslateCall == \E text \in Texts : Translate(text)

RendererNext ==
    \/ RenderCall
    \/ RenderMainStep
    \/ RenderColumnStep
    \/ RenderReturn
    \/ CallDone
    \/ IconApiCall
    \/ TranslateCall

(***************************************************************************)
(* Configuration (load_config of src/main.py)                              *)
(***************************************************************************)
Placeholder == "YOUR_OPENWEATHER_APPID"

\* config.json after the overrides of the environment: latitude and
\* longitude in degrees, the API key (empty, the placeholder of the sample
\* file, or a key); each of the three entries may be missing
Lats == {-91, 35}
Lons == {139, 181}
Keys == {"", Placeholder, "0123abcd"}
With(d, k, v) == [x \in DOMAIN d \cup {k} |-> IF x = k THEN v ELSE d[x]]
Coordinates ==
    {EmptyDict}
    \cup { With(EmptyDict, "latitude", la) : la \in Lats }
    \cup { With(EmptyDict, "longitude", lo) : lo \in Lons }
    \cup { [latitude |-> la, longitude |-> lo] : la \in Lats, lo \in Lons }
Configs ==
    Coordinates \cup { With(c, "openweather_appid", k) : c \in Coordinates, k \in Keys }

\* main, lines 184-197: both coordinates are set and in range
CoordinatesValid(cfg) ==
    /\ "latitude" \in DOMAIN cfg
    /\ "longitude" \in DOMAIN cfg
    /\ -90 <= cfg.latitude /\ cfg.latitude <= 90
    /\ -180 <= cfg.longitude /\ cfg.longitude <= 180

\* The configurations main constructs its objects from
Constructible == {c \in Configs : CoordinatesValid(c) /\ "openweather_appid" \in DOMAIN c}

DefaultConfig == [latitude |-> 35, longitude |-> 139, openweather_appid |-> "0123abcd"]

\* load_config, lines 147-151: a key that is not set is only warned about
KeyNotSet(cfg) ==
    "openweather_appid" \notin DOMAIN cfg \/ cfg.openweather_appid \in {"", Placeholder}

(***************************************************************************)
(* WeatherFetcher (src/src/weather.py)                                     *)
(***************************************************************************)
V3 == "https://api.openweathermap.org/data/3.0/onecall"
V2 == "https://api.openweathermap.org/data/2.5/onecall"

\* What weather.fetch can find in the body of a reply: JSON (null, an empty
\* object, a snapshot) or something that is no JSON
FetchResults == {None, EmptyDict} \cup Populated
Unparsable == [html |-> TRUE]
Bodies == FetchResults \cup {Unparsable}

\* What requests.get does: it raises Timeout, it raises another
\* RequestException (no connection), or it returns a response
Statuses == {200, 300, 401, 404, 500}
Replies ==
    {[kind |-> "Timeout"], [kind |-> "ConnectionError"]}
    \cup {[kind |-> "response", status |-> st, body |-> bd] :
             st \in Statuses, bd \in Bodies}

\* Lines 97-104: the parameters of a request
Params(cfg) ==
    [lat |-> Get(cfg, "latitude", None), lon |-> Get(cfg, "longitude", None),
     appid |-> Get(cfg, "openweather_appid", None), exclude |-> "minutely"]

\* fetch without the test of line 112 on the endpoint: a second request after
\* every 401
fetch_FallbackAnywhere(url, params, r1, r2) ==
    LET fallback == r1.kind = "response" /\ r1.status = 401
        response == IF fallback THEN r2 ELSE r1
        out(ret, level) ==
            [ret |-> ret, raised |-> FALSE, log |-> level,
             base_url |-> IF fallback THEN V2 ELSE url,
             requests |-> IF fallback
                          THEN <<[url |-> url, params |-> params],
                                 [url |-> V2, params |-> params]>>
                          ELSE <<[url |-> url, params |-> params]>>,
             first |-> IF r1.kind = "response" THEN r1.status ELSE -1,
             status |-> IF response.kind = "response" THEN response.status ELSE -1,
             parsable |-> response.kind = "response" /\ response.body # Unparsable]
    IN  IF response.kind # "response" THEN out(None, "error")
        ELSE IF response.status >= 400 /\ response.status < 600
        THEN out(None, "error")
        ELSE IF response.body = Unparsable THEN out(None, "error")
        ELSE out(response.body, "info")

\* WeatherFetcher.fetch with self.base_url = url, the first request answered
\* by r1 and a second one, if it is sent, by r2.  raise_for_status raises
\* HTTPError for a status from 400 to 599; response.json() raises
\* requests.exceptions.JSONDecodeError, a RequestException, on a body that
\* is no JSON.  Both except clauses return None.
fetch(url, params, r1, r2) ==
    LET fallback == r1.kind = "response" /\ r1.status = 401 /\ url = V3
        response == IF fallback THEN r2 ELSE r1
        out(ret, level) ==
            [ret |-> ret, raised |-> FALSE, log |-> level,
             base_url |-> IF fallback THEN V2 ELSE url,
             requests |-> IF fallback
                          THEN <<[url |-> url, params |-> params],
                                 [url |-> V2, params |-> params]>>
                          ELSE <<[url |-> url, params |-> params]>>,
             first |-> IF r1.kind = "response" THEN r1.status ELSE -1,
             status |-> IF response.kind = "response" THEN response.status ELSE -1,
             parsable |-> response.kind = "response" /\ response.body # Unparsable]
    IN  IF response.kind # "response" THEN out(None, "error")
        ELSE IF response.status >= 400 /\ response.status < 600
        THEN out(None, "error")
        ELSE IF response.body = Unparsable THEN out(None, "error")
        ELSE out(response.body, "info")

\* The replies a second request can get: it is sent only after a 401 from
\* the 3.0 endpoint
SecondReplies(url, r1) ==
    IF r1.kind = "response" /\ r1.status = 401 /\ url = V3 THEN Replies ELSE {r1}

NoFetch == [called |-> FALSE, url |-> "", requests |-> <<>>, first |-> -1, status |-> -1,
            parsable |-> FALSE, ret |-> None, raised |-> FALSE]

\* One call of fetch: the fetcher's base_url and the bookkeeping of the call
Fetch(r1, r2) ==
    LET f == fetch(base_url, Params(config), r1, r2)
    IN  /\ base_url' = f.base_url
        /\ fetch_call' = [called |-> TRUE, url |-> base_url,
                          requests |-> f.requests, first |-> f.first,
                          status |-> f.status,
                          parsable |-> f.parsable, ret |-> f.ret,
                          raised |-> f.raised]

\* WeatherFetcher.__init__, lines 51-58
InitFetcher ==
    /\ base_url = V3
    /\ fetch_call = NoFetch

(***************************************************************************)
(* EInkDisplay (src/src/display.py)                                        *)
(***************************************************************************)
White == <<255, 255, 255>>
Black == <<0, 0, 0>>
Red == <<255, 0, 0>>

\* A small display and the mode "1" images of its size: a pixel is 0 or 1
SimSize == [width |-> 2, height |-> 2]
PixelsOf(size) == (0..(size.width - 1)) \X (0..(size.height - 1))
Bitmap(size, px) == [mode |-> "1", size |-> size, px |-> px]
SimPlanes == { Bitmap(SimSize, px) : px \in [PixelsOf(SimSize) -> {0, 1}] }

\* Lines 172-183: the preview starts white; the black plane, converted to
\* RGB, is pasted over it; then pure red is pasted through the inverted red
\* plane, if there is one
Preview(size, img_blk, img_red) ==
    [ p \in PixelsOf(size) |->
        LET new == White
            pasted == IF p \in DOMAIN img_blk.px
                      THEN (IF img_blk.px[p] = 0 THEN Black ELSE White)
                      ELSE new
            red_mask == IF img_red # None /\ p \in DOMAIN img_red.px
                        THEN 255 - 255 * img_red.px[p]
                        ELSE 0
        IN  IF red_mask = 255 THEN Red ELSE pasted ]

\* EInkDisplay.__init__ without a driver, the files of the simulation absent
NoSim == [called |-> FALSE, width |-> SimSize.width, height |-> SimSize.height,
          has_eink |-> FALSE, image_black |-> None, image_red |-> None,
          screen_black |-> None, screen_red |-> None, screen_preview |-> None]

\* EInkDisplay.display, lines 159-189: the simulation saves the planes and
\* the preview; screen_red.png is written only when there is a red plane
Display(img_blk, img_red) ==
    /\ ~sim.has_eink
    /\ sim' = [sim EXCEPT
                 !.called = TRUE,
                 !.image_black = img_blk,
                 !.image_red = img_red,
                 !.screen_black = img_blk,
                 !.screen_red = IF img_red # None THEN img_red ELSE @,
                 !.screen_preview =
                     Preview([width |-> sim.width, height |-> sim.height],
                             img_blk, img_red)]

(***************************************************************************)
(* EInkConverter (src/src/eink_converter.py)                               *)
(*                                                                         *)
(* An image is one row of three pixels, a pixel <<r, g, b, a>> or          *)
(* <<r, g, b>>; on one row the vertical passes of resize and of MaxFilter  *)
(* copy the row.  The floating point comparisons of the code are made on   *)
(* exact fractions.                                                        *)
(***************************************************************************)
Max3(a, b, c) == IF a >= b /\ a >= c THEN a ELSE IF b >= c THEN b ELSE c
Min3(a, b, c) == IF a <= b /\ a <= c THEN a ELSE IF b <= c THEN b ELSE c

\* rgb_to_hsv: h = h_num / den degrees, s = s_num / s_den, v
rgb_to_hsv(r, g, b) ==
    LET max_val == Max3(r, g, b)
        min_val == Min3(r, g, b)
        diff == max_val - min_val
    IN  [h_num |-> IF diff = 0 THEN 0
                   ELSE IF max_val = r THEN (60 * (g - b) + 360 * diff) % (360 * diff)
                   ELSE IF max_val = g THEN (60 * (b - r) + 120 * diff) % (360 * diff)
                   ELSE (60 * (r - g) + 240 * diff) % (360 * diff),
         den |-> IF diff = 0 THEN 1 ELSE diff,
         s_num |-> IF max_val = 0 THEN 0 ELSE diff * 255,
         s_den |-> IF max_val = 0 THEN 1 ELSE max_val,
         v |-> max_val]

\* is_red, lines 66-72
is_red(cfg, r, g, b) ==
    LET hsv == rgb_to_hsv(r, g, b)
        h_min == cfg.red_hue_range[1]
        h_max == cfg.red_hue_range[2]
        in_hue_range ==
            \/ hsv.h_num >= h_min * hsv.den /\ hsv.h_num <= h_max * hsv.den
            \/ hsv.h_num >= (360 - h_max) * hsv.den /\ hsv.h_num <= 360 * hsv.den
    IN  /\ in_hue_range
        /\ hsv.s_num >= cfg.red_saturation_min * hsv.s_den
        /\ hsv.v >= 50

\* Image.resize(size, LANCZOS) along a row of 3 or of 6 pixels: the weight
\* of every input pixel for every output pixel, in units of 2^-22 (the
\* Lanczos kernel of support 3 sampled at the pixel centres, normalised over
\* the part of the window inside the row)
LanczosWeights(inSize) ==
    IF inSize = 3
    THEN << <<4742290, -707939, 159953>>,
            <<3417235, 1037340, -260271>>,
            <<1103050, 3633700, -542446>>,
            <<-542446, 3633700, 1103050>>,
            <<-260271, 1037340, 3417235>>,
            <<159953, -707939, 4742290>> >>
    ELSE << <<1986086, 1986086, 602899, -296487, -151269, 66989>>,
            <<-271223, 551525, 1816850, 1816850, 551525, -271223>>,
            <<66989, -151269, -296487, 602899, 1986086, 1986086>> >>

Clip8(v) == IF v < 0 THEN 0 ELSE IF v > 255 THEN 255 ELSE v

RECURSIVE Dot(_, _, _, _)
Dot(row, k, c, n) == IF n = 0 THEN 0 ELSE Dot(row, k, c, n - 1) + row[n][c] * k[n]

\* One pass of the resampling over the channels of a row
Resample(row) ==
    [ xx \in 1..Len(LanczosWeights(Len(row))) |->
        [ c \in 1..Len(row[1]) |->
            Clip8((2097152 + Dot(row, LanczosWeights(Len(row))[xx], c, Len(row)))
                      \div 4194304) ] ]

\* Image.resize of an RGBA image: the colours are multiplied by alpha, the
\* four channels are resampled, the colours are divided by alpha again
ResizeRGBA(row) ==
    LET MulDiv255(a, b) == (((a * b + 128) \div 256) + a * b + 128) \div 256
        pre == [x \in 1..Len(row) |->
                  <<MulDiv255(row[x][1], row[x][4]), MulDiv255(row[x][2], row[x][4]),
                    MulDiv255(row[x][3], row[x][4]), row[x][4]>>]
        out == Resample(pre)
        Straight(v, a) == IF a = 0 \/ a = 255 THEN v ELSE Clip8((255 * v) \div a)
    IN  [x \in 1..Len(out) |->
           <<Straight(out[x][1], out[x][4]), Straight(out[x][2], out[x][4]),
             Straight(out[x][3], out[x][4]), out[x][4]>>]

\* _create_outline: the mask grown by MaxFilter(2 * outline_width + 1),
\* without the mask itself
create_outline(cfg, content_mask) ==
    [ x \in 1..Len(content_mask) |->
        /\ \E j \in 1..Len(content_mask) :
              /\ j >= x - cfg.outline_width
              /\ j <= x + cfg.outline_width
              /\ content_mask[j]
        /\ ~content_mask[x] ]

\* convert, lines 91-101: the image read from input_path, scaled up for
\* anti-aliasing
Upscale(cfg, input) == IF cfg.use_anti_alias THEN ResizeRGBA(input) ELSE input

\* convert, lines 103-139: the masks of the array img and the output array
convert(cfg, img) ==
    LET opaque(x) == img[x][4] >= 128
        red(x) == is_red(cfg, img[x][1], img[x][2], img[x][3])
        luminance(x) == (299 * img[x][1] + 587 * img[x][2] + 114 * img[x][3]) \div 1000
        red_mask == [x \in 1..Len(img) |-> opaque(x) /\ red(x)]
        black_mask == [x \in 1..Len(img) |->
                          opaque(x) /\ ~red(x) /\ luminance(x) < cfg.dark_threshold]
        white_content_mask == [x \in 1..Len(img) |->
                          opaque(x) /\ ~red(x) /\ ~(luminance(x) < cfg.dark_threshold)]
        outline_mask == create_outline(cfg, white_content_mask)
    IN  [red_mask |-> red_mask, black_mask |-> black_mask,
         white_content_mask |-> white_content_mask, outline_mask |-> outline_mask,
         output_array |-> [x \in 1..Len(img) |->
                             IF red_mask[x] THEN Red
                             ELSE IF black_mask[x] \/ outline_mask[x] THEN Black
                             ELSE White]]

\* convert, lines 141-145: the result, scaled down to the size of the input
Downscale(cfg, output_array) ==
    IF cfg.use_anti_alias THEN Resample(output_array) ELSE output_array

\* EInkConverter.__init__: the defaults, and what the command line can set
DefaultConverter ==
    [red_hue_range |-> <<0, 30>>, red_saturation_min |-> 50, dark_threshold |-> 128,
     outline_width |-> 2, use_anti_alias |-> TRUE]
Converters ==
    { DefaultConverter,
      [DefaultConverter EXCEPT !.use_anti_alias = FALSE],
      [DefaultConverter EXCEPT !.use_anti_alias = FALSE, !.red_hue_range = <<330, 390>>],
      [DefaultConverter EXCEPT !.red_hue_range = <<330, 390>>] }

\* The pixels of the input images: transparent, white, black, red and green
\* opaque, and white with alpha 100
InputPixels ==
    { <<0, 0, 0, 0>>, <<255, 255, 255, 255>>, <<0, 0, 0, 255>>, <<255, 0, 0, 255>>,
      <<0, 255, 0, 255>>, <<255, 255, 255, 100>> }
InputImages == { <<p1, p2, p3>> : p1 \in InputPixels, p2 \in InputPixels, p3 \in InputPixels }

\* Image.open(path).convert('RGBA') of a saved RGB result
ToRGBA(rgb) == [x \in 1..Len(rgb) |-> <<rgb[x][1], rgb[x][2], rgb[x][3], 255>>]

NoConv == [done |-> FALSE, cfg |-> DefaultConverter, input |-> <<>>,
           img |-> <<>>, red_mask |-> <<>>, black_mask |-> <<>>,
           white_content_mask |-> <<>>, outline_mask |-> <<>>, result |-> <<>>]

\* converter.convert(input_path): the masks and the image it returns
Convert(input) ==
    \E img \in {Upscale(conv.cfg, input)} :
        \E r \in {convert(conv.cfg, img)} :
            \E result \in {Downscale(conv.cfg, r.output_array)} :
                conv' = [done |-> TRUE, cfg |-> conv.cfg, input |-> input,
                         img |-> img, red_mask |-> r.red_mask,
                         black_mask |-> r.black_mask,
                         white_content_mask |-> r.white_content_mask,
                         outline_mask |-> r.outline_mask, result |-> result]

(***************************************************************************)
(* Renderer.generate_moon_icon (src/src/renderer.py): the shadow of the    *)
(* moon disc, one horizontal line per scanline.                            *)
(*                                                                         *)
(* Ages are in 1/10000 day, as in render; horizontal coordinates are in    *)
(* 1/100 pixel, cosines in 1/10000.                                        *)
(***************************************************************************)
\* radius = _size // 2 with _size = 200
radius == 100

\* The ages of a call: new moon, the quarters, full moon, the days between
\* them and the ages on both sides of the branch of the loop
MoonAges == {0, 36900, 73800, 110700, 147650, 149000, 150000, 184600,
             221500, 258400}

\* math.cos(theta) with theta = age / 14.765 * math.pi
cos_theta(age) ==
    CASE age = 0      -> 10000
      [] age = 36900  -> 7073
      [] age = 73800  -> 5
      [] age = 110700 -> -7065
      [] age = 147650 -> -10000
      [] age = 149000 -> -9996
      [] age = 150000 -> -9988
      [] age = 184600 -> -7065
      [] age = 221500 -> 5
      [] age = 258400 -> 7073

\* The integer part of the square root
RECURSIVE Isqrt(_)
Isqrt(n) ==
    IF n < 2 THEN n
    ELSE LET s == 2 * Isqrt(n \div 4)
         IN  IF (s + 1) * (s + 1) <= n THEN s + 1 ELSE s

\* n / d to the nearest integer
RoundDiv(n, d) ==
    IF n >= 0 THEN (2 * n + d) \div (2 * d) ELSE -((2 * (-n) + d) \div (2 * d))

\* x = radius * math.sin(alpha) with alpha = math.acos(y / radius): half the
\* chord of the disc on scanline y
sin_alpha(y) == (Isqrt(4 * (radius * radius - y * y) * 10000) + 1) \div 2

\* The loop without its branch on the age: every line drawn as before full moon
ShadowLine_AlwaysWaxing(age, y) ==
    LET x == sin_alpha(y)
        length == RoundDiv(cos_theta(age) * x, 10000)
    IN  [start |-> (radius + 1) * 100 - x,
         end   |-> (radius + 1) * 100 + length]

\* One pass of the loop: start and end of the line drawn on scanline y
ShadowLine(age, y) ==
    LET x == sin_alpha(y)
        length == RoundDiv(cos_theta(age) * x, 10000)
    IN  IF age < 150000
        THEN [start |-> (radius + 1) * 100 - x,
              end   |-> (radius + 1) * 100 + length]
        ELSE [start |-> (radius + 1) * 100 - length,
              end   |-> (radius + 1) * 100 + x]

NoMoon == [called |-> FALSE, age |-> 0, y |-> -radius, shadow |-> <<>>,
           done |-> FALSE]

(***************************************************************************)
(* Specifications of the parts: each object driven through its methods     *)
(***************************************************************************)
\* What the variables of main hold while an object is driven on its own
NoMain ==
    /\ pc = "api"
    /\ data = None
    /\ fetches = 0
    /\ loop = FALSE
    /\ log = "none"
    /\ panel = "off"
    /\ shown = None

\* The Renderer driven through its public methods
InitApi ==
    /\ InitRenderer
    /\ InitFetcher
    /\ NoMain
    /\ config = DefaultConfig
    /\ sim = NoSim
    /\ conv = NoConv
    /\ moon = NoMoon

SpecRenderer == InitApi /\ [][RendererNext]_vars

\* The WeatherFetcher driven through fetch
FetchCall ==
    /\ pc = "api"
    /\ \E r1 \in Replies : \E r2 \in SecondReplies(base_url, r1) : Fetch(r1, r2)
    /\ UNCHANGED <<translations, tr_call, rvars, pc, data, fetches, loop,
                   config, log, panel, shown, svars>>

FetcherNext == FetchCall

\* A Renderer nobody calls: no translation file, an empty cache
NoRenderer ==
    /\ InitRenderer
    /\ translations = Dict(EmptyDict)
    /\ cache = [c \in Codes |-> NoFile]

InitFetcherApi ==
    /\ NoRenderer
    /\ InitFetcher
    /\ NoMain
    /\ config \in Constructible
    /\ sim = NoSim
    /\ conv = NoConv
    /\ moon = NoMoon

SpecFetcher == InitFetcherApi /\ [][FetcherNext]_vars

\* An EInkDisplay in simulation mode driven through display
DisplayCall ==
    /\ pc = "api"
    /\ \E b \in SimPlanes, r \in SimPlanes \cup {None} : Display(b, r)
    /\ UNCHANGED <<translations, tr_call, rvars, pc, data, fetches, loop,
                   config, log, panel, shown, fvars, conv, moon>>

DisplayNext == DisplayCall

InitDisplayApi ==
    /\ NoRenderer
    /\ InitFetcher
    /\ NoMain
    /\ config = DefaultConfig
    /\ sim = NoSim
    /\ conv = NoConv
    /\ moon = NoMoon

SpecDisplay == InitDisplayApi /\ [][DisplayNext]_vars

\* An EInkConverter driven through convert: a first conversion of an input
\* file, then conversions of the file the last conversion wrote
ConvertCall ==
    /\ pc = "api"
    /\ ~conv.done
    /\ Convert(conv.input)
    /\ UNCHANGED <<translations, tr_call, rvars, pc, data, fetches, loop,
                   config, log, panel, shown, fvars, sim, moon>>

ReconvertCall ==
    /\ pc = "api"
    /\ conv.done
    /\ Convert(ToRGBA(conv.result))
    /\ UNCHANGED <<translations, tr_call, rvars, pc, data, fetches, loop,
                   config, log, panel, shown, fvars, sim, moon>>

ConverterNext == ConvertCall \/ ReconvertCall

InitConverterApi ==
    /\ NoRenderer
    /\ InitFetcher
    /\ NoMain
    /\ config = DefaultConfig
    /\ sim = NoSim
    /\ \E cfg \in Converters, input \in InputImages :
          conv = [NoConv EXCEPT !.cfg = cfg, !.input = input]
    /\ moon = NoMoon

SpecConverter == InitConverterApi /\ [][ConverterNext]_vars

\* A generate_moon_icon call: the canvas with the outline of the disc, the
\* loop over the scanlines from -radius to radius - 1, then resize and convert
MoonOutline ==
    /\ pc = "api"
    /\ ~moon.called
    /\ moon' = [moon EXCEPT !.called = TRUE]
    /\ UNCHANGED <<translations, tr_call, rvars, pc, data, fetches, loop,
                   config, log, panel, shown, fvars, sim, conv>>

MoonScanline ==
    /\ pc = "api"
    /\ moon.called
    /\ moon.y < radius
    /\ moon' = [moon EXCEPT
                  !.shadow = [yy \in -radius .. moon.y |->
                                IF yy = moon.y THEN ShadowLine(moon.age, yy)
                                ELSE moon.shadow[yy]],
                  !.y = moon.y + 1]
    /\ UNCHANGED <<translations, tr_call, rvars, pc, data, fetches, loop,
                   config, log, panel, shown, fvars, sim, conv>>

MoonReturn ==
    /\ pc = "api"
    /\ moon.called
    /\ moon.y = radius
    /\ ~moon.done
    /\ moon' = [moon EXCEPT !.done = TRUE]
    /\ UNCHANGED <<translations, tr_call, rvars, pc, data, fetches, loop,
                   config, log, panel, shown, fvars, sim, conv>>

MoonNext == MoonOutline \/ MoonScanline \/ MoonReturn

InitMoonApi ==
    /\ NoRenderer
    /\ InitFetcher
    /\ NoMain
    /\ config = DefaultConfig
    /\ sim = NoSim
    /\ conv = NoConv
    /\ \E age \in MoonAges : moon = [NoMoon EXCEPT !.age = age]

SpecMoon == InitMoonApi /\ [][MoonNext]_vars

(***************************************************************************)
(* main (src/main.py): validation, then display.init, update,              *)
(* display.sleep, and again with --loop                                    *)
(***************************************************************************)
\* Lines 181-217: the configuration is loaded and validated, then the
\* WeatherFetcher, the Renderer and the EInkDisplay are constructed;
\* config['openweather_appid'] raises KeyError when there is no such entry
Validate ==
    /\ pc = "start"
    /\ IF "latitude" \notin DOMAIN config \/ "longitude" \notin DOMAIN config
       THEN pc' = "exit" /\ log' = "error"
       ELSE IF ~(-90 <= config.latitude /\ config.latitude <= 90)
       THEN pc' = "exit" /\ log' = "error"
       ELSE IF ~(-180 <= config.longitude /\ config.longitude <= 180)
       THEN pc' = "exit" /\ log' = "error"
       ELSE IF "openweather_appid" \notin DOMAIN config
       THEN pc' = "crashed" /\ log' = "warning"
       ELSE /\ pc' = "init"
            /\ log' = IF KeyNotSet(config) THEN "warning" ELSE "none"
    /\ UNCHANGED <<data, fetches, loop, config, panel, shown, fvars, svars,
                   translations, tr_call, rvars>>

\* Lines 220 and 253: display.init() opens an update cycle
DisplayInit ==
    /\ pc = "init"
    /\ pc' = "fetch"
    /\ fetches' = 0
    /\ panel' = "ready"
    /\ shown' = None
    /\ log' = "none"
    /\ UNCHANGED <<data, loop, config, fvars, svars, translations, tr_call, rvars>>

\* Lines 227-229 and 235-236: data = weather.fetch(); without data the
\* display update is skipped
UpdateFetch ==
    /\ pc = "fetch"
    /\ \E r1 \in Replies : \E r2 \in SecondReplies(base_url, r1) :
          /\ base_url' = fetch(base_url, Params(config), r1, r2).base_url
          /\ data' = fetch(base_url, Params(config), r1, r2).ret
          /\ pc' = IF Falsy(fetch(base_url, Params(config), r1, r2).ret)
                   THEN "sleep" ELSE "render"
          /\ log' = IF Falsy(fetch(base_url, Params(config), r1, r2).ret)
                    THEN "error" ELSE "none"
    /\ fetches' = fetches + 1
    /\ UNCHANGED <<loop, config, panel, shown, fetch_call, svars, translations,
                   tr_call, rvars>>

\* Line 231: renderer.render(data) is entered
UpdateRender ==
    /\ pc = "render"
    /\ RenderBegin(data)
    /\ UNCHANGED mvars

\* Lines 233-234: render has returned and display.display gets the planes
UpdateDisplay ==
    /\ pc = "render"
    /\ rpc = "returned"
    /\ shown' = [black |-> image_black, red |-> image_red]
    /\ panel' = "displayed"
    /\ Cleared
    /\ pc' = "sleep"
    /\ UNCHANGED <<data, fetches, loop, config, log, fvars, svars>>

\* Lines 233 and 237-238: display.display raises (the files cannot be
\* written, the driver fails); the exception is logged
UpdateDisplayFailed ==
    /\ pc = "render"
    /\ rpc = "returned"
    /\ panel' = "displayed"
    /\ Cleared
    /\ pc' = "sleep"
    /\ log' = "error"
    /\ UNCHANGED <<data, fetches, loop, config, shown, fvars, svars>>

\* update() without its try: the exception of render leaves main
UpdateFailed_Propagates ==
    /\ pc = "render"
    /\ rpc = "raised"
    /\ Cleared
    /\ pc' = "crashed"
    /\ log' = "error"
    /\ UNCHANGED <<data, fetches, loop, config, panel, shown, fvars, svars>>

\* Lines 237-238: an exception of render is logged
UpdateFailed ==
    /\ pc = "render"
    /\ rpc = "raised"
    /\ Cleared
    /\ pc' = "sleep"
    /\ log' = "error"
    /\ UNCHANGED <<data, fetches, loop, config, panel, shown, fvars, svars>>

\* main without lines 243 and 255: display.sleep() is never called
DisplaySleep_NoSleep ==
    /\ pc = "sleep"
    /\ pc' = IF loop THEN "wait" ELSE "exit"
    /\ data' = None
    /\ shown' = None
    /\ UNCHANGED <<fetches, loop, config, log, panel, fvars, svars,
                   translations, tr_call, rvars>>

\* Lines 240-247 and 254-255: update() has returned; display.sleep();
\* without --loop main returns
DisplaySleep ==
    /\ pc = "sleep"
    /\ pc' = IF loop THEN "wait" ELSE "exit"
    /\ panel' = "asleep"
    /\ data' = None
    /\ shown' = None
    /\ UNCHANGED <<fetches, loop, config, log, fvars, svars,
                   translations, tr_call, rvars>>

\* Lines 251-252: time.sleep(interval) is over
WakeUp ==
    /\ pc = "wait"
    /\ pc' = "init"
    /\ UNCHANGED <<data, fetches, loop, config, log, panel, shown, fvars, svars,
                   translations, tr_call, rvars>>

Init ==
    /\ InitRenderer
    /\ InitFetcher
    /\ pc = "start"
    /\ data = None
    /\ fetches = 0
    /\ loop \in BOOLEAN
    /\ config \in Configs
    /\ log = "none"
    /\ panel = "off"
    /\ shown = None
    /\ sim = NoSim
    /\ conv = NoConv
    /\ moon = NoMoon

Next ==
    \/ Validate
    \/ DisplayInit
    \/ UpdateFetch
    \/ UpdateRender
    \/ RenderMainStep
    \/ RenderColumnStep
    \/ RenderReturn
    \/ UpdateDisplay
    \/ UpdateDisplayFailed
    \/ UpdateFailed
    \/ DisplaySleep
    \/ WakeUp

Spec == Init /\ [][Next]_vars

\* main started with --loop, a configuration that passes validation and an
\* empty icon cache
LoopInit ==
    /\ Init
    /\ loop
    /\ config = DefaultConfig
    /\ cache = [c \in Codes |-> NoFile]

\* main is one sequential thread: a statement that can run does run
FairSpec == LoopInit /\ [][Next]_vars /\ WF_vars(Next)

(***************************************************************************)
(* Properties                                                              *)
(***************************************************************************)
\* A render call on a snapshot that is not absent has returned its planes
ReturnedFrame == rpc = "returned" /\ ~Falsy(weather_data)

\* A GET of the render call in progress failed: a request was sent for the
\* code and there is still no file for it
FailedDownload(c) == gets[c] > 0 /\ cache[c] = NoFile

\* C1: after render returns, for any snapshot, no pixel is 0 in both the
\* black plane and the red plane.
C1_NoPixelInBothPlanes ==
    rpc = "returned" => ~BothPlanesZero(image_black, image_red)

\* C2: once get_weather_icon(code, size) has succeeded, every later call with
\* the same code and size sends no HTTP request and returns the bitmap of the
\* first successful call.
C2_CachedIconStable ==
    (lastCall.called /\ lastCall.prior # None)
        => (~lastCall.get /\ lastCall.ret = lastCall.prior)

C2_Witness ==
    /\ lastCall.called
    /\ lastCall.prior # None
    /\ lastCall.ret = lastCall.prior
    /\ gets[lastCall.code] = 0

\* C3: a file that exists at a cache path is never rewritten, replaced or
\* deleted, and a call sends a GET (and may write the file) only when the
\* path does not exist at the time of the call.
C3_CacheEntryPermanent ==
    [][ /\ \A c \in Codes : cache[c] # NoFile => cache'[c] = cache[c]
        /\ (lastCall'.called /\ lastCall'.get) => ~lastCall'.existed ]_vars

C3_Witness ==
    /\ lastCall.called
    /\ lastCall.existed
    /\ cache[lastCall.code] \in Contents
    /\ rpc = "forecast"

\* The places of the texts render draws on the black plane for n columns
BlackTextPlaces(n) ==
    { <<20, 15>>, <<20, 50>>, <<180, 110>>, <<180, 210>>, <<450, 30>>,
      <<450, 50>>, <<530, 30>>, <<530, 50>>, <<650, 130>>, <<450, 150>>,
      <<450, 185>>, <<450, 220>>, <<450, 255>> }
    \cup { <<30 + 152 * i, 340>> : i \in 0..(n - 1) }
    \cup { <<100 + 152 * i, 440>> : i \in 0..(n - 1) }

Places(plane, kind) ==
    { <<plane[k].x, plane[k].y>> : k \in {j \in DOMAIN plane : plane[j].op = kind} }

\* C4: a failed icon download (exception or status other than 200) makes
\* get_weather_icon return None without raising and without creating a cache
\* file, and render still returns a frame with every other element: all
\* texts, the moon, the separator and every column.
C4_IconFailureIsSoft ==
    /\ (lastCall.called /\ lastCall.get /\ lastCall.status # 200)
          => /\ lastCall.ret = None
             /\ ~lastCall.raised
             /\ cache[lastCall.code] = NoFile
    /\ (\E c \in Codes : FailedDownload(c)) => rpc # "raised"
    /\ ReturnedFrame
          => /\ Places(image_black, "text")
                  = BlackTextPlaces(Min(5, Len(Get(weather_data, "daily", <<>>))))
             /\ Places(image_black, "line") = {<<20, 320>>}
             /\ <<650, 30>> \in Places(image_black, "paste")
             /\ Places(image_red, "text")
                  = { <<30 + 152 * i, 440>> :
                        i \in 0..(Min(5, Len(Get(weather_data, "daily", <<>>))) - 1) }

C4_Witness ==
    /\ ReturnedFrame
    /\ FailedDownload("01d")
    /\ FailedDownload("10d")
    /\ Len(image_red) = 5
    /\ Places(image_black, "paste") = {<<650, 30>>}

\* C5: within one update cycle weather.fetch is called at most once and at
\* most one download attempt is made for any icon code.
C5_NoRetryInCycle ==
    /\ fetches <= 1
    /\ \A c \in Codes : gets[c] <= 1

\* C6: render with an absent snapshot (None or empty) returns the placeholder
\* frame without raising and without any icon fetch: the black plane holds
\* only the text "No Weather Data Available" at (10, 10), the red plane is
\* white everywhere.
C6_PlaceholderFrame ==
    /\ (rpc = "returned" /\ weather_data \in {None, EmptyDict})
          => /\ image_black
                  = << [op |-> "text", x |-> 10, y |-> 10,
                        s |-> "No Weather Data Available", font |-> "medium"] >>
             /\ image_red = <<>>
             /\ \A px \in {0, 10, Width - 1}, py \in {0, 10, Height - 1} :
                    PlaneAt(image_red, px, py) = 1
             /\ ~lastCall.called
             /\ \A c \in Codes : gets[c] = 0
    /\ rpc \in {"raised", "main_icon", "forecast"}
          => weather_data \notin {None, EmptyDict}

C6_Witness ==
    /\ rpc = "returned"
    /\ weather_data = EmptyDict
    /\ Len(image_black) = 1

\* C7: for a snapshot that is not absent render never reads the host clock:
\* the date and time it displays come from the snapshot, also when current.dt
\* is missing or 0.
C7_NeverHostClock ==
    (rpc \in {"main_icon", "forecast", "returned"} /\ ~Falsy(weather_data))
        => now_from = "snapshot"

\* The HH:MM of t seconds since the epoch in UTC: hours and minutes counted
\* from whole hours and whole minutes since the epoch
TimeOfDay(t) == Pad2((t \div 3600) % 24) \o ":" \o Pad2((t \div 60) % 60)

TextsAt(plane, x, y) ==
    { plane[k].s : k \in {j \in DOMAIN plane :
                            plane[j].op = "text" /\ plane[j].x = x /\ plane[j].y = y} }

HasSunrise(d) == "sunrise" \in DOMAIN Current(d) /\ Current(d).sunrise # 0

\* C8 as stated: for every sunrise timestamp T0 and every timezone_offset the
\* sunrise string is the HH:MM of T0 + timezone_offset in UTC.
C8_SunriseEveryT0 ==
    ReturnedFrame
        => TextsAt(image_black, 450, 50)
             = { TimeOfDay(Get(Current(weather_data), "sunrise", 0)
                            + Get(weather_data, "timezone_offset", 0)) }

\* C8 (amended): for every sunrise timestamp T0 other than 0 and every
\* timezone_offset the sunrise string is the HH:MM of T0 + timezone_offset in
\* UTC, whatever the host clock shows; a sunrise of 0 or a missing sunrise is
\* drawn as "--:--".
C8_SunriseLocalTime ==
    ReturnedFrame
        => TextsAt(image_black, 450, 50)
             = { IF HasSunrise(weather_data)
                 THEN TimeOfDay(Current(weather_data).sunrise
                                 + Get(weather_data, "timezone_offset", 0))
                 ELSE "--:--" }

C8_Witness ==
    /\ ReturnedFrame
    /\ Current(weather_data).sunrise = 1735681860
    /\ Get(weather_data, "timezone_offset", 0) = 32400
    /\ TextsAt(image_black, 450, 50) = {"06:51"}

\* C9: for a populated snapshot render draws one column for each of the first
\* min(5, number of daily entries) entries, in order, column i at
\* x = 20 + i * ((width - 40) \div 5); the max temperature of a column is on
\* the red plane only, the min temperature on the black plane only, and the
\* red plane holds nothing else.
C9_ForecastColumns ==
    ReturnedFrame
        => LET daily == Get(weather_data, "daily", <<>>)
               n == Min(5, Len(daily))
               x(i) == 20 + i * ((Width - 40) \div 5)
               temp(i) == Get(daily[i + 1], "temp", EmptyDict)
           IN  /\ Len(image_red) = n
               /\ \A i \in 0..(n - 1) :
                    /\ image_red[i + 1]
                         = [op |-> "text", x |-> x(i) + 10, y |-> 440,
                            s |-> Fmt0f(Get(temp(i), "max", 0)) \o "°",
                            font |-> "medium"]
                    /\ TextsAt(image_black, x(i) + 80, 440)
                         = {Fmt0f(Get(temp(i), "min", 0)) \o "°"}
                    /\ TextsAt(image_black, x(i) + 10, 440) = {}
                    /\ TextsAt(image_red, x(i) + 80, 440) = {}
                    /\ \A j \in (i + 1)..(n - 1) :
                         \E a, b \in DOMAIN image_black :
                            /\ a < b
                            /\ image_black[a].x = x(i) + 80
                            /\ image_black[b].x = x(j) + 80
                            /\ image_black[a].y = 440
                            /\ image_black[b].y = 440

C9_Witness ==
    /\ ReturnedFrame
    /\ Len(Get(weather_data, "daily", <<>>)) = 6
    /\ Len(image_red) = 5
    /\ image_red[5].x = 638
    /\ image_red[5].s = "3°"

\* C10: I18n.translate never raises and returns the text unchanged when the
\* table has no entry for it, whatever the translation file is or holds.
C10_TranslateFallback ==
    tr_call.called
        => /\ ~tr_call.raised
           /\ (translations.type = "dict" /\ tr_call.text \notin DOMAIN translations.map)
                 => tr_call.ret = tr_call.text

\* C11: WeatherFetcher.fetch never raises; on a timeout, a network error, a
\* status that is not 2xx or a body that cannot be parsed it returns None; it
\* sends a second request, to the 2.5 endpoint with the same parameters, only
\* when the first went to the 3.0 endpoint and got 401; it sends at most two
\* requests per call.
C11_FetchFailureIsNone ==
    fetch_call.called
        => /\ ~fetch_call.raised
           /\ (fetch_call.status \notin 200..299 \/ ~fetch_call.parsable)
                 => fetch_call.ret = None
           /\ Len(fetch_call.requests) \in {1, 2}
           /\ fetch_call.requests[1].url = fetch_call.url
           /\ Len(fetch_call.requests) = 2
                 <=> (fetch_call.url = V3 /\ fetch_call.first = 401)
           /\ Len(fetch_call.requests) = 2
                 => /\ fetch_call.requests[2].url = V2
                    /\ fetch_call.requests[2].params = fetch_call.requests[1].params

\* C12: in an update cycle where weather.fetch returns no data, render is
\* called with no data and display.display gets the placeholder frame it
\* returns: when update() is over the display has been given that frame.
C12_FailedFetchShowsPlaceholder ==
    (pc = "sleep" /\ Falsy(data))
        => shown = [black |-> <<Text(10, 10, "No Weather Data Available", "medium")>>,
                    red |-> <<>>]

\* Startup validation fails: a coordinate is missing or out of range, or the
\* API key is missing, empty or the placeholder
ValidationFails(cfg) == ~CoordinatesValid(cfg) \/ KeyNotSet(cfg)

\* C13: when startup validation fails, main logs the failure and ends before
\* any weather fetch, any render and any display call: the display is never
\* initialised and main is at its start or past its end.
C13_InvalidConfigExits ==
    ValidationFails(config)
        => /\ pc \in {"start", "exit", "crashed"}
           /\ pc # "start" => log \in {"warning", "error"}
           /\ panel = "off"
           /\ fetches = 0
           /\ rpc = "idle"
           /\ shown = None

\* C14: in simulation mode, for every pixel of every pair of planes given to
\* display, the preview pixel is black when the black plane is 0 there
\* (whatever the red plane holds), red when the black plane is 1 and the red
\* plane is 0, and white otherwise.
C14_PreviewColours ==
    (sim.called /\ sim.image_red # None)
        => \A p \in PixelsOf(SimSize) :
              sim.screen_preview[p]
                = IF sim.image_black.px[p] = 0 THEN Black
                  ELSE IF sim.image_red.px[p] = 0 THEN Red
                  ELSE White

\* C15: in loop mode a failing update cycle (no data from fetch, or an
\* exception in render or display.display) does not end the process: every
\* cycle that has begun reaches display.sleep, is followed by the wait for
\* the refresh interval, and the wait is followed by the next cycle.
C15_LoopSurvivesFailure ==
    /\ [](loop /\ panel # "off" => pc \notin {"exit", "crashed"})
    /\ (loop /\ pc = "fetch") ~> (pc = "sleep")
    /\ (loop /\ pc = "sleep" /\ log = "error") ~> (pc = "wait" /\ panel = "asleep")
    /\ (loop /\ pc = "wait") ~> (pc = "fetch" /\ panel = "ready" /\ fetches = 0)

\* A failed cycle has ended with the display asleep, the interval is over and
\* the next cycle is about to begin
C15_Witness ==
    /\ loop
    /\ pc = "init"
    /\ panel = "asleep"
    /\ log = "error"

\* C16: for every RGBA input image and every configuration, with anti-alias
\* on or off, each pixel of the image convert returns is (0,0,0), (255,0,0)
\* or (255,255,255).
C16_ThreeColoursOnly ==
    conv.done
        => \A x \in DOMAIN conv.result : conv.result[x] \in {Black, Red, White}

\* C17: every pixel whose alpha is below 128 is white in the image convert
\* returns, whatever its neighbours are.
C17_TransparentStaysWhite ==
    conv.done
        => \A x \in DOMAIN conv.input :
              conv.input[x][4] < 128 => conv.result[x] = White

\* The image holds only opaque pure black, pure red and white pixels
ThreeColour(image) ==
    \A x \in DOMAIN image :
        /\ image[x][4] = 255
        /\ <<image[x][1], image[x][2], image[x][3]>> \in {Black, Red, White}

\* C18: convert applied to an image of pure black, pure red and white pixels
\* only (such as an image convert returned before) returns that image
\* unchanged, pixel for pixel.
C18_ConvertIdempotent ==
    (conv.done /\ ThreeColour(conv.input))
        => conv.input = ToRGBA(conv.result)

\* C20: with a hue range whose upper bound exceeds 360, a hue h is inside the
\* range iff h_min <= h < 360 or 0 <= h <= h_max - 360, and an opaque pixel is
\* classified red iff its hue is inside the range, its saturation is at
\* least red_saturation_min and its value at least 50.
C20_HueWraparound ==
    (conv.done /\ conv.cfg.red_hue_range[2] > 360)
        => \A x \in DOMAIN conv.img :
              conv.img[x][4] >= 128
                 => LET hsv == rgb_to_hsv(conv.img[x][1], conv.img[x][2], conv.img[x][3])
                        inside ==
                            \/ /\ hsv.h_num >= conv.cfg.red_hue_range[1] * hsv.den
                               /\ hsv.h_num < 360 * hsv.den
                            \/ hsv.h_num <= (conv.cfg.red_hue_range[2] - 360) * hsv.den
                    IN  conv.red_mask[x]
                          <=> /\ inside
                              /\ hsv.s_num >= conv.cfg.red_saturation_min * hsv.s_den
                              /\ hsv.v >= 50

\* C19: the shadow of generate_moon_icon on every scanline drawn so far.  For
\* age 0 it runs from the left end to the right end of the chord of the disc;
\* for age 14.765 it has no length; for age 7.38 it runs from the left end of
\* the chord to the centre, and for age 22.15 from the centre to the right
\* end of the chord (to a tenth of a pixel).
Centre == (radius + 1) * 100
OnLimb(h, y) ==
    /\ h >= 0
    /\ h = 0 \/ (2 * h - 1) * (2 * h - 1) <= 4 * (radius * radius - y * y) * 10000
    /\ 4 * (radius * radius - y * y) * 10000 <= (2 * h + 1) * (2 * h + 1)
C19_MoonPhases ==
    \A y \in DOMAIN moon.shadow :
        LET line == moon.shadow[y]
        IN  /\ moon.age = 0 =>
                /\ OnLimb(Centre - line.start, y)
                /\ line.end - Centre = Centre - line.start
            /\ moon.age = 147650 => line.end = line.start
            /\ moon.age = 73800 =>
                /\ OnLimb(Centre - line.start, y)
                /\ Abs(line.end - Centre) <= 10
            /\ moon.age = 221500 =>
                /\ OnLimb(line.end - Centre, y)
                /\ Abs(line.start - Centre) <= 10

C19_Witness ==
    /\ moon.done
    /\ moon.age = 221500
    /\ moon.shadow[0].end - moon.shadow[0].start > 9900


\* C21: on every scanline drawn so far the line of generate_moon_icon is the
\* waxing segment, from centre - half_width to centre + shadow_extent, when
\* the age is below 14.765, and the waning segment, from
\* centre - shadow_extent to centre + half_width, when the age is 14.765 or
\* more.
C21_BranchAtHalfCycle ==
    \A y \in DOMAIN moon.shadow :
        LET half_width == sin_alpha(y)
            shadow_extent == RoundDiv(cos_theta(moon.age) * half_width, 10000)
        IN  moon.shadow[y] =
                IF moon.age < 147650
                THEN [start |-> Centre - half_width, end |-> Centre + shadow_extent]
                ELSE [start |-> Centre - shadow_extent, end |-> Centre + half_width]


\* C22: base_url starts at the 3.0 endpoint; it changes only from the 3.0 to
\* the 2.5 endpoint, in a fetch whose 3.0 request returned 401, and every such
\* fetch changes it; once it is the 2.5 endpoint it stays so, and every fetch
\* called with it sends exactly one request, to the 2.5 endpoint.
C22_FallbackOneWay ==
    /\ base_url = V3
    /\ [][/\ base_url = V2 => base_url' = V2
          /\ base_url' # base_url =>
                /\ base_url = V3
                /\ base_url' = V2
                /\ fetch_call'.url = V3
                /\ fetch_call'.first = 401]_vars
    /\ [](fetch_call.called =>
            /\ (fetch_call.url = V3 /\ fetch_call.first = 401) => base_url = V2
            /\ fetch_call.url = V2 =>
                  /\ base_url = V2
                  /\ Len(fetch_call.requests) = 1
                  /\ fetch_call.requests[1].url = V2)

C22_Witness ==
    /\ fetch_call.called
    /\ fetch_call.url = V2
    /\ fetch_call.status = 401
    /\ base_url = V2


\* C23: in every run of main, with or without --loop, no display method has
\* been called at the start; display.init is called only on a display that
\* is off or asleep, display.display only on a display that was initialised
\* and has neither displayed nor slept since, display.sleep only on a display
\* that was initialised and has not slept since; nothing else changes the
\* state of the display.
C23_DisplayProtocol ==
    /\ panel = "off"
    /\ [][/\ DisplayInit => panel \in {"off", "asleep"}
          /\ (UpdateDisplay \/ UpdateDisplayFailed) => panel = "ready"
          /\ DisplaySleep => panel \in {"ready", "displayed"}
          /\ panel' # panel =>
                \/ DisplayInit
                \/ UpdateDisplay
                \/ UpdateDisplayFailed
                \/ DisplaySleep]_vars

C23_Witness ==
    /\ loop
    /\ pc = "fetch"
    /\ fetches = 0
    /\ panel = "ready"
    /\ base_url = V2

====
